---- MODULE Spec2Model ----
(***************************************************************************)
(* Kerala relief hub: the need-fulfilment workflow of NGODashboard          *)
(* (handleProvideAssistance / fetchData), the need creation of             *)
(* CampDashboard (handleAddNeed / handleCreateCamp), the volunteer         *)
(* registration of UserDashboard (handleVolunteer), Index with its auth    *)
(* callbacks and the views' loading flags, and the tables, row level       *)
(* policies, constraints and foreign keys of the schema they run against.  *)
(***************************************************************************)
EXTENDS Integers, Sequences, FiniteSets, TLC

(* ------------------------------ bounds --------------------------------- *)
MaxUsers == 2
MaxSessions == 2
MaxCamps == 2
MaxNeeds == 1
MaxLedger == 2
MaxVolunteers == 2

(* rows a needs query matches *)
MaxRows == 3

Users == 1..MaxUsers
Sessions == 1..MaxSessions
CampIds == 1..MaxCamps
NeedIds == 1..MaxNeeds

NoUser == 0
NULL == 0
NoRow == [absent |-> TRUE]

(* app_role enum *)
Roles == {"user", "camp", "ngo"}
NoProfile == "none"

(* ------------------------- form input parsing -------------------------- *)
(* A submitted form field is a string, held as a sequence of characters.   *)
NaN == [nan |-> TRUE, val |-> 0]

Num(v) == [nan |-> FALSE, val |-> v]

IsDigit(c) == c \in {"0", "1", "2", "3", "4", "5", "6", "7", "8", "9"}

DigitVal(c) ==
  CASE c = "0" -> 0 [] c = "1" -> 1 [] c = "2" -> 2 [] c = "3" -> 3
    [] c = "4" -> 4 [] c = "5" -> 5 [] c = "6" -> 6 [] c = "7" -> 7
    [] c = "8" -> 8 [] c = "9" -> 9

RECURSIVE SkipSpace(_)
SkipSpace(str) ==
  IF str # <<>> /\ Head(str) = " " THEN SkipSpace(Tail(str)) ELSE str

RECURSIVE LeadingDigits(_, _)
LeadingDigits(str, acc) ==
  IF str # <<>> /\ IsDigit(Head(str))
  THEN LeadingDigits(Tail(str), acc * 10 + DigitVal(Head(str)))
  ELSE acc

(* parseInt(string): leading blanks skipped, an optional sign, then the    *)
(* longest run of decimal digits; NaN when there is no digit.              *)
parseInt(str) ==
  LET t == SkipSpace(str)
      signed == t # <<>> /\ Head(t) \in {"-", "+"}
      neg == t # <<>> /\ Head(t) = "-"
      u == IF signed THEN Tail(t) ELSE t
  IN IF u = <<>> \/ ~IsDigit(Head(u))
     THEN NaN
     ELSE Num((IF neg THEN -1 ELSE 1) * LeadingDigits(u, 0))

(* The values the quantity field of the pledge form is submitted with:     *)
(* where sessions race, and where one session pledges on its own.          *)
PledgeInputs == { <<>>, <<"6">> }

SoloPledgeInputs == { <<>>, <<"0">>, <<"-", "2">>, <<"4">>, <<"6">> }

(* The values the quantity field of the add-need form is submitted with.   *)
NeedInputs ==
  { <<>>, <<"0">>, <<"-", "5">>, <<"1", "0">> }

(* The values the capacity and occupied fields of the camp form carry.     *)
CapacityInputs == { <<>>, <<"2">> }

OccupiedInputs == { <<"0">>, <<"3">>, <<"-", "1">> }

(* The occupied_seats an administrator's UPDATE of a camp is sent with:    *)
(* empty, as many as the capacity that CapacityInputs gives, one more.     *)
SeatInputs == {0, 2, 3}

(* The assignments an UPDATE of a ledger row is sent with: a               *)
(* delivery_status (one of them outside the CHECK), a quantity, an owner.  *)
DeliveryInputs == {"pledged", "in_transit", "delivered", "cancelled"}

LedgerQuantityInputs == {1}

AssistancePatches ==
  ({"delivery_status"} \X DeliveryInputs)
    \cup ({"quantity"} \X LedgerQuantityInputs)
    \cup ({"ngo_id"} \X (1..MaxUsers))

(* ------------------------------ state ---------------------------------- *)
VARIABLES
  profiles,          \* public.profiles: user id -> role, or NoProfile
  camps,             \* public.camps: camp id -> row, or NoRow
  campIdsIssued,     \* number of camp ids gen_random_uuid() has handed out
  camp_needs,        \* public.camp_needs: need id -> row, or NoRow
  needIdsIssued,     \* number of need ids gen_random_uuid() has handed out
  ngo_assistance,    \* public.ngo_assistance: the ledger, in insertion order
  authUser,          \* per browser session: the user supabase.auth.getUser() resolves
  userRole,          \* per session: Index's userRole, which picks the dashboard
  needs,             \* per session: the mounted dashboard's `needs` state
  selectedNeed,      \* per session: NGODashboard's selectedNeed (a snapshot row)
  showAssistDialog,  \* per session: NGODashboard's showAssistDialog
  selectedCamp,      \* per session: CampDashboard's selectedCamp (camp id)
  pc,                \* per session: position inside handleProvideAssistance
  quantity,          \* per session: the parsed quantity of the pledge in flight
  toasts,            \* per session: messages on screen (gone at the session's next action)
  obs,               \* per session: what the store held at each step of the pledge
                     \* just made (forgotten at the session's next action)
  volunteers,        \* public.volunteers: the registrations, in insertion order
  campList,          \* per session: UserDashboard's `camps` state (snapshot rows)
  volunteerFor,      \* per session: the camp id of the handleVolunteer call in flight
  loading,           \* per session: the loading flag of each view (FALSE when not mounted)
  pending,           \* per session: the requests and callbacks still to come back
  session,           \* per session: Index's `session` state (its user, or NoUser)
  urgencyColumn,     \* camp_needs.urgency of the rows a needs query matches, as stored
  fetchedUrgency     \* the urgency of the rows of a fetched needs list, in its order

vars ==
  << profiles, camps, campIdsIssued, camp_needs, needIdsIssued, ngo_assistance,
     authUser, userRole, needs, selectedNeed, showAssistDialog, selectedCamp,
     pc, quantity, toasts, obs, volunteers, campList, volunteerFor, loading, pending,
     session, urgencyColumn, fetchedUrgency >>

dbVars ==
  << profiles, camps, campIdsIssued, camp_needs, needIdsIssued, ngo_assistance >>

(* the volunteers table and UserDashboard's state *)
userDashVars == << volunteers, campList, volunteerFor >>

(* Index's session, the loading flags and the requests in flight *)
mountVars == << loading, pending, session >>

(* the urgency column and a needs list as ordered by the needs queries *)
orderVars == << urgencyColumn, fetchedUrgency >>

(* ------------------------- schema: row policies ------------------------ *)
(* auth.uid() is NoUser for a request that carries no valid session.       *)

(* "Users can update own profile" *)
ProfilesUpdatePolicy(uid, id) == uid # NoUser /\ uid = id

(* "Camp admins can insert camps" *)
CampsInsertPolicy(uid, row) ==
  /\ uid # NoUser
  /\ uid = row.camp_admin_id
  /\ profiles[uid] = "camp"

(* the policy of camp_needs written without its USING clause *)
CampNeedsPolicyDropped(uid, camp_id) == camp_id \in CampIds /\ camps[camp_id] # NoRow

(* "Camp admins can manage needs" (FOR ALL: insert, update, delete) *)
CampNeedsManagePolicy(uid, camp_id) ==
  /\ uid # NoUser
  /\ camp_id \in CampIds
  /\ camps[camp_id] # NoRow
  /\ camps[camp_id].camp_admin_id = uid

(* the policy as it would read without its EXISTS (... role = 'ngo') *)
AssistanceInsertPolicyAnyRole(uid, row) ==
  /\ uid # NoUser
  /\ uid = row.ngo_id

(* "NGOs can provide assistance" *)
AssistanceInsertPolicy(uid, row) ==
  /\ uid # NoUser
  /\ uid = row.ngo_id
  /\ profiles[uid] = "ngo"

(* "NGOs can update own assistance": USING only, so the same expression   *)
(* is also the check the updated row has to pass.                          *)
AssistanceUpdatePolicy(uid, row) ==
  /\ uid # NoUser
  /\ uid = row.ngo_id

(* "Users can register as volunteers" *)
VolunteersInsertPolicy(uid, row) ==
  /\ uid # NoUser
  /\ uid = row.user_id

(* "Camp admins can update own camps" *)
CampsUpdatePolicy(uid, row) ==
  /\ uid # NoUser
  /\ uid = row.camp_admin_id

(* ----------------------- schema: tables and keys ----------------------- *)
RlsError == "new row violates row-level security policy"
NotNullError == "null value violates not-null constraint"
ForeignKeyError == "insert violates foreign key constraint"
NotAuthenticated == "Not authenticated"
Ok == "ok"

(* JSON.stringify turns NaN into null; the column is INTEGER NOT NULL.      *)
IsSqlNull(n) == n.nan

(* INSERT INTO ngo_assistance: the request's outcome *)
AssistanceInsertResult(uid, row) ==
  IF ~AssistanceInsertPolicy(uid, row) THEN RlsError
  ELSE IF IsSqlNull(row.quantity) THEN NotNullError
  ELSE IF \/ row.camp_id \notin CampIds
          \/ camps[row.camp_id] = NoRow
          \/ row.need_id \notin NeedIds
          \/ camp_needs[row.need_id] = NoRow
          \/ profiles[row.ngo_id] = NoProfile
       THEN ForeignKeyError
  ELSE Ok

(* the row as stored: delivery_status takes its default *)
AssistanceRow(row) ==
  [ ngo_id |-> row.ngo_id, camp_id |-> row.camp_id, need_id |-> row.need_id,
    quantity |-> row.quantity.val, delivery_status |-> "pledged" ]

(* CHECK (delivery_status IN ('pledged', 'in_transit', 'delivered')) *)
DeliveryStatusCheck(row) == row.delivery_status \in {"pledged", "in_transit", "delivered"}

CheckError == "new row violates check constraint"

(* UPDATE ngo_assistance SET column = value WHERE id = ...: the row after  *)
(* the assignment                                                          *)
AssistancePatched(row, column, value) ==
  CASE column = "delivery_status" -> [row EXCEPT !.delivery_status = value]
    [] column = "quantity" -> [row EXCEPT !.quantity = value]
    [] column = "ngo_id" -> [row EXCEPT !.ngo_id = value]

(* the outcome of the update of a row the caller may update *)
AssistanceUpdateResult(uid, new) ==
  IF ~AssistanceUpdatePolicy(uid, new) THEN RlsError
  ELSE IF ~DeliveryStatusCheck(new) THEN CheckError
  ELSE IF profiles[new.ngo_id] = NoProfile THEN ForeignKeyError
  ELSE Ok

(* INSERT INTO camp_needs: the request's outcome *)
CampNeedsInsertResult(uid, row) ==
  IF ~CampNeedsManagePolicy(uid, row.camp_id) THEN RlsError
  ELSE IF IsSqlNull(row.quantity_needed) THEN NotNullError
  ELSE Ok

(* the row as stored: quantity_fulfilled and status take their defaults *)
CampNeedsRow(row) ==
  [ camp_id |-> row.camp_id, quantity_needed |-> row.quantity_needed.val,
    quantity_fulfilled |-> 0, status |-> "pending" ]

(* INSERT INTO camps: the request's outcome *)
CampsInsertResult(uid, row) ==
  IF ~CampsInsertPolicy(uid, row) THEN RlsError
  ELSE IF IsSqlNull(row.total_capacity) \/ IsSqlNull(row.occupied_seats)
       THEN NotNullError
  ELSE Ok

CampsRow(row) ==
  [ camp_admin_id |-> row.camp_admin_id, total_capacity |-> row.total_capacity.val,
    occupied_seats |-> row.occupied_seats.val, status |-> "active" ]

DuplicateError == "duplicate key value violates unique constraint"

(* the table without its UNIQUE constraint *)
VolunteersUniqueDropped(table, row) == TRUE

(* UNIQUE(user_id, camp_id, volunteer_type) *)
VolunteersUnique(table, row) ==
  \A i \in DOMAIN table :
    ~ ( /\ table[i].user_id = row.user_id
        /\ table[i].camp_id = row.camp_id
        /\ table[i].volunteer_type = row.volunteer_type )

(* INSERT INTO volunteers: the request's outcome *)
VolunteersInsertResult(uid, row) ==
  IF ~VolunteersInsertPolicy(uid, row) THEN RlsError
  ELSE IF ~VolunteersUnique(volunteers, row) THEN DuplicateError
  ELSE IF \/ profiles[row.user_id] = NoProfile
          \/ row.camp_id \notin CampIds
          \/ camps[row.camp_id] = NoRow
       THEN ForeignKeyError
  ELSE Ok

VolunteersRow(row) ==
  [ user_id |-> row.user_id, camp_id |-> row.camp_id,
    volunteer_type |-> row.volunteer_type, status |-> row.status ]

(* SELECT * FROM camps WHERE status = 'active' (UserDashboard) *)
ActiveCampsQuery(table) ==
  [ c \in CampIds |->
      IF table[c] # NoRow /\ table[c].status = "active"
      THEN [id |-> c] @@ table[c] ELSE NoRow ]

(* need_id written as a plain column: the ledger after a need's deletion  *)
(* if nothing were done to it                                              *)
KeptOnNeedDelete(ledger, n) == ledger

(* ngo_assistance.need_id REFERENCES camp_needs(id) ON DELETE SET NULL *)
SetNullOnNeedDelete(ledger, n) ==
  [ i \in DOMAIN ledger |->
      IF ledger[i].need_id = n THEN [ledger[i] EXCEPT !.need_id = NULL] ELSE ledger[i] ]

(* SELECT * FROM camp_needs WHERE status <> 'fulfilled' (NGODashboard)      *)
OpenNeedsQuery(table) ==
  [ n \in NeedIds |->
      IF table[n] # NoRow /\ table[n].status # "fulfilled"
      THEN [id |-> n] @@ table[n] ELSE NoRow ]

(* SELECT * FROM camp_needs WHERE camp_id = campId (CampDashboard)          *)
CampNeedsQuery(table, campId) ==
  [ n \in NeedIds |->
      IF table[n] # NoRow /\ table[n].camp_id = campId
      THEN [id |-> n] @@ table[n] ELSE NoRow ]

(* camp_needs.urgency: TEXT CHECK (urgency IN (...)) *)
Urgencies == { "low", "medium", "high", "critical" }

(* a TEXT value as its letters, each by its place in the alphabet *)
Text(label) ==
  CASE label = "low" -> << 12, 15, 23 >>
    [] label = "medium" -> << 13, 5, 4, 9, 21, 13 >>
    [] label = "high" -> << 8, 9, 7, 8 >>
    [] label = "critical" -> << 3, 18, 9, 20, 9, 3, 1, 12 >>

(* the order of TEXT values: letter by letter, a prefix first *)
RECURSIVE TextLess(_, _)
TextLess(a, b) ==
  IF a = << >> THEN b # << >>
  ELSE IF b = << >> THEN FALSE
  ELSE IF Head(a) = Head(b) THEN TextLess(Tail(a), Tail(b))
  ELSE Head(a) < Head(b)

(* x comes before y under ORDER BY urgency ASC / DESC *)
Precedes(x, y, ascending) ==
  IF ascending THEN TextLess(Text(x), Text(y)) ELSE TextLess(Text(y), Text(x))

RECURSIVE Inserted(_, _, _)
Inserted(x, sorted, ascending) ==
  IF sorted = << >> THEN << x >>
  ELSE IF Precedes(x, Head(sorted), ascending) THEN << x >> \o sorted
  ELSE << Head(sorted) >> \o Inserted(x, Tail(sorted), ascending)

(* .order("urgency", { ascending }): the column's values sorted as TEXT *)
RECURSIVE order(_, _)
order(column, ascending) ==
  IF column = << >> THEN << >>
  ELSE Inserted(Head(column), order(Tail(column), ascending), ascending)

NoNeeds == [ n \in NeedIds |-> NoRow ]

Null == [null |-> TRUE]

(* obs: entry is the ledger index the pledge's insert produced (0: none), *)
(* q its quantity, pre / post the stored need row just before and just     *)
(* after the need update; reported is TRUE once the handler has shown its  *)
(* success message.                                                        *)
NoObs == [ entry |-> 0, q |-> 0, pre |-> NoRow, post |-> NoRow, reported |-> FALSE ]

NoCamps == [ c \in CampIds |-> NoRow ]

(* the views that carry a loading flag *)
Views == {"Index", "UserDashboard", "CampDashboard", "NGODashboard"}

NotLoading == [ v \in Views |-> FALSE ]

(* ------------------------------- Init ---------------------------------- *)
Init ==
  /\ profiles = [ u \in Users |-> NoProfile ]
  /\ camps = [ c \in CampIds |-> NoRow ]
  /\ campIdsIssued = 0
  /\ camp_needs = [ n \in NeedIds |-> NoRow ]
  /\ needIdsIssued = 0
  /\ ngo_assistance = << >>
  /\ authUser = [ s \in Sessions |-> NoUser ]
  /\ userRole = [ s \in Sessions |-> NoProfile ]
  /\ needs = [ s \in Sessions |-> NoNeeds ]
  /\ selectedNeed = [ s \in Sessions |-> Null ]
  /\ showAssistDialog = [ s \in Sessions |-> FALSE ]
  /\ selectedCamp = [ s \in Sessions |-> NULL ]
  /\ pc = [ s \in Sessions |-> "idle" ]
  /\ quantity = [ s \in Sessions |-> 0 ]
  /\ toasts = [ s \in Sessions |-> {} ]
  /\ obs = [ s \in Sessions |-> NoObs ]
  /\ volunteers = << >>
  /\ campList = [ s \in Sessions |-> NoCamps ]
  /\ volunteerFor = [ s \in Sessions |-> Null ]
  /\ loading = [ s \in Sessions |-> NotLoading ]
  /\ pending = [ s \in Sessions |-> {} ]
  /\ session = [ s \in Sessions |-> NoUser ]
  /\ urgencyColumn = << >>
  /\ fetchedUrgency = << >>

(* --------------------------- accounts, Index --------------------------- *)
(* handle_new_user: the signup trigger creates the profile;                *)
(* COALESCE(raw_user_meta_data->>'role', 'user').                          *)
handle_new_user(u, meta_role) ==
  /\ profiles[u] = NoProfile
  /\ profiles' = [profiles EXCEPT ![u] = IF meta_role = NoProfile THEN "user" ELSE meta_role]
  /\ UNCHANGED << camps, campIdsIssued, camp_needs, needIdsIssued, ngo_assistance,
                  authUser, userRole, needs, selectedNeed, showAssistDialog,
                  selectedCamp, pc, quantity, toasts, obs >>
  /\ UNCHANGED << userDashVars, mountVars >>
  /\ UNCHANGED orderVars

(* UPDATE profiles SET role = r WHERE id = u, as the policy admits it *)
UpdateProfileRole(uid, u, r) ==
  /\ profiles[u] # NoProfile
  /\ ProfilesUpdatePolicy(uid, u)
  /\ profiles[u] # r
  /\ profiles' = [profiles EXCEPT ![u] = r]
  /\ UNCHANGED << camps, campIdsIssued, camp_needs, needIdsIssued, ngo_assistance,
                  authUser, userRole, needs, selectedNeed, showAssistDialog,
                  selectedCamp, pc, quantity, toasts, obs >>
  /\ UNCHANGED << userDashVars, mountVars >>
  /\ UNCHANGED orderVars

(* A session signs in: Index stores the session, fetchUserRole reads the   *)
(* profile's role and the matching dashboard is mounted with fresh state.  *)
SignIn(s, u) ==
  /\ authUser[s] = NoUser
  /\ userRole[s] = NoProfile
  /\ pc[s] = "idle"
  /\ profiles[u] # NoProfile
  /\ authUser' = [authUser EXCEPT ![s] = u]
  /\ userRole' = [userRole EXCEPT ![s] = profiles[u]]
  /\ needs' = [needs EXCEPT ![s] = NoNeeds]
  /\ selectedNeed' = [selectedNeed EXCEPT ![s] = Null]
  /\ showAssistDialog' = [showAssistDialog EXCEPT ![s] = FALSE]
  /\ selectedCamp' = [selectedCamp EXCEPT ![s] = NULL]
  /\ toasts' = [toasts EXCEPT ![s] = {}]
  /\ UNCHANGED << dbVars, pc, quantity, obs >>
  /\ campList' = [campList EXCEPT ![s] = NoCamps]
  /\ session' = [session EXCEPT ![s] = u]
  /\ UNCHANGED << volunteers, volunteerFor, loading, pending >>
  /\ UNCHANGED orderVars

(* Index.handleSignOut: the session ends, Index drops the role, the        *)
(* dashboard is unmounted and the browser leaves for /auth: Index is       *)
(* unmounted too, and what was in flight comes back to nothing.            *)
handleSignOut(s) ==
  /\ authUser[s] # NoUser
  /\ userRole[s] # NoProfile
  /\ pc[s] = "idle"
  /\ authUser' = [authUser EXCEPT ![s] = NoUser]
  /\ userRole' = [userRole EXCEPT ![s] = NoProfile]
  /\ needs' = [needs EXCEPT ![s] = NoNeeds]
  /\ selectedNeed' = [selectedNeed EXCEPT ![s] = Null]
  /\ showAssistDialog' = [showAssistDialog EXCEPT ![s] = FALSE]
  /\ selectedCamp' = [selectedCamp EXCEPT ![s] = NULL]
  /\ toasts' = [toasts EXCEPT ![s] = {}]
  /\ obs' = [obs EXCEPT ![s] = NoObs]
  /\ UNCHANGED << dbVars, pc, quantity >>
  /\ campList' = [campList EXCEPT ![s] = NoCamps]
  /\ session' = [session EXCEPT ![s] = NoUser]
  /\ loading' = [loading EXCEPT ![s] = NotLoading]
  /\ pending' = [pending EXCEPT ![s] = {}]
  /\ UNCHANGED << volunteers, volunteerFor >>
  /\ UNCHANGED orderVars

(* The session's token stops being valid (revoked, or signed out in        *)
(* another tab): supabase.auth.getUser() resolves to no user from now on.  *)
SessionRevoked(s) ==
  /\ authUser[s] # NoUser
  /\ authUser' = [authUser EXCEPT ![s] = NoUser]
  /\ UNCHANGED << dbVars, userRole, needs, selectedNeed, showAssistDialog,
                  selectedCamp, pc, quantity, toasts, obs >>
  /\ UNCHANGED << userDashVars, mountVars >>
  /\ UNCHANGED orderVars

(* ---------------------------- CampDashboard ---------------------------- *)
(* the admin's camps, ORDER BY created_at DESC: the newest is the first *)
CampsOf(uid) == { c \in CampIds : camps[c] # NoRow /\ camps[c].camp_admin_id = uid }

(* ORDER BY created_at ASC would put the oldest first *)
Oldest(cs) == CHOOSE c \in cs : \A d \in cs : c <= d

Newest(cs) == CHOOSE c \in cs : \A d \in cs : d <= c

fetchCampData(s) ==
  /\ userRole[s] = "camp"
  /\ pc[s] = "idle"
  /\ IF authUser[s] = NoUser
     THEN /\ toasts' = [toasts EXCEPT ![s] = {"Failed to load camp data"}]
          /\ UNCHANGED << selectedCamp, needs >>
     ELSE /\ toasts' = [toasts EXCEPT ![s] = {}]
          /\ IF CampsOf(authUser[s]) # {} /\ selectedCamp[s] = NULL
             THEN /\ selectedCamp' = [selectedCamp EXCEPT ![s] = Newest(CampsOf(authUser[s]))]
                  /\ needs' = [needs EXCEPT ![s] =
                                CampNeedsQuery(camp_needs, Newest(CampsOf(authUser[s])))]
             ELSE UNCHANGED << selectedCamp, needs >>
  /\ UNCHANGED << dbVars, authUser, userRole, selectedNeed, showAssistDialog,
                  pc, quantity, obs >>
  /\ UNCHANGED << userDashVars, mountVars >>
  /\ UNCHANGED orderVars

handleCreateCamp(s, capacity, occupied) ==
  /\ userRole[s] = "camp"
  /\ pc[s] = "idle"
  /\ LET row == [ camp_admin_id |-> authUser[s],
                  total_capacity |-> parseInt(capacity),
                  occupied_seats |-> parseInt(occupied) ]
         res == IF authUser[s] = NoUser THEN NotAuthenticated
                ELSE IF campIdsIssued >= MaxCamps THEN "busy"
                ELSE CampsInsertResult(authUser[s], row)
     IN /\ res # "busy"
        /\ IF res = Ok
           THEN /\ campIdsIssued' = campIdsIssued + 1
                /\ camps' = [camps EXCEPT ![campIdsIssued + 1] = CampsRow(row)]
                /\ selectedCamp' = [selectedCamp EXCEPT ![s] = campIdsIssued + 1]
                /\ toasts' = [toasts EXCEPT ![s] = {"Camp created successfully!"}]
           ELSE /\ toasts' = [toasts EXCEPT ![s] = {res}]
                /\ UNCHANGED << campIdsIssued, camps, selectedCamp >>
  /\ UNCHANGED << profiles, camp_needs, needIdsIssued, ngo_assistance, authUser,
                  userRole, needs, selectedNeed, showAssistDialog, pc, quantity, obs >>
  /\ UNCHANGED << userDashVars, mountVars >>
  /\ UNCHANGED orderVars

handleAddNeed(s, input) ==
  /\ userRole[s] = "camp"
  /\ pc[s] = "idle"
  /\ selectedCamp[s] # NULL
  /\ LET row == [ camp_id |-> selectedCamp[s], quantity_needed |-> parseInt(input) ]
         res == IF CampNeedsInsertResult(authUser[s], row) = Ok /\ needIdsIssued >= MaxNeeds
                THEN "busy"
                ELSE CampNeedsInsertResult(authUser[s], row)
     IN /\ res # "busy"
        /\ IF res = Ok
           THEN /\ needIdsIssued' = needIdsIssued + 1
                /\ camp_needs' = [camp_needs EXCEPT ![needIdsIssued + 1] = CampNeedsRow(row)]
                /\ needs' = [needs EXCEPT ![s] = CampNeedsQuery(camp_needs', selectedCamp[s])]
                /\ toasts' = [toasts EXCEPT ![s] = {"Need added successfully!"}]
           ELSE /\ toasts' = [toasts EXCEPT ![s] = {res}]
                /\ UNCHANGED << needIdsIssued, camp_needs, needs >>
  /\ UNCHANGED << profiles, camps, campIdsIssued, ngo_assistance, authUser, userRole,
                  selectedNeed, showAssistDialog, selectedCamp, pc, quantity, obs >>
  /\ UNCHANGED << userDashVars, mountVars >>
  /\ UNCHANGED orderVars

(* DELETE FROM camp_needs WHERE id = n, as "Camp admins can manage needs"  *)
(* admits it; the ledger's need_id is set to null by the foreign key.      *)
DeleteNeed(uid, n) ==
  /\ camp_needs[n] # NoRow
  /\ CampNeedsManagePolicy(uid, camp_needs[n].camp_id)
  /\ camp_needs' = [camp_needs EXCEPT ![n] = NoRow]
  /\ ngo_assistance' = SetNullOnNeedDelete(ngo_assistance, n)
  /\ UNCHANGED << profiles, camps, campIdsIssued, needIdsIssued, authUser, userRole,
                  needs, selectedNeed, showAssistDialog, selectedCamp, pc, quantity,
                  toasts, obs >>
  /\ UNCHANGED << userDashVars, mountVars >>
  /\ UNCHANGED orderVars

(* ----------------------------- NGODashboard ---------------------------- *)
(* The dashboard is mounted (or reloaded): state starts fresh and         *)
(* fetchData loads the needs that are not fulfilled; when the request      *)
(* fails the list stays empty and "Failed to load data" is shown.          *)
fetchData(s, ok) ==
  /\ userRole[s] = "ngo"
  /\ pc[s] = "idle"
  /\ needs' = [needs EXCEPT ![s] = IF ok THEN OpenNeedsQuery(camp_needs) ELSE NoNeeds]
  /\ toasts' = [toasts EXCEPT ![s] = IF ok THEN {} ELSE {"Failed to load data"}]
  /\ selectedNeed' = [selectedNeed EXCEPT ![s] = Null]
  /\ showAssistDialog' = [showAssistDialog EXCEPT ![s] = FALSE]
  /\ obs' = [obs EXCEPT ![s] = NoObs]
  /\ UNCHANGED << dbVars, authUser, userRole, selectedCamp, pc, quantity >>
  /\ UNCHANGED << userDashVars, mountVars >>
  /\ UNCHANGED orderVars

(* "Provide Assistance" on a listed need *)
SelectNeed(s, n) ==
  /\ userRole[s] = "ngo"
  /\ pc[s] = "idle"
  /\ needs[s][n] # NoRow
  /\ selectedNeed[s] # needs[s][n] \/ ~showAssistDialog[s]
  /\ selectedNeed' = [selectedNeed EXCEPT ![s] = needs[s][n]]
  /\ showAssistDialog' = [showAssistDialog EXCEPT ![s] = TRUE]
  /\ toasts' = [toasts EXCEPT ![s] = {}]
  /\ obs' = [obs EXCEPT ![s] = NoObs]
  /\ UNCHANGED << dbVars, authUser, userRole, needs, selectedCamp, pc, quantity >>
  /\ UNCHANGED << userDashVars, mountVars >>
  /\ UNCHANGED orderVars

(* the dialog is dismissed (onOpenChange) *)
CloseDialog(s) ==
  /\ userRole[s] = "ngo"
  /\ pc[s] = "idle"
  /\ showAssistDialog[s]
  /\ showAssistDialog' = [showAssistDialog EXCEPT ![s] = FALSE]
  /\ toasts' = [toasts EXCEPT ![s] = {}]
  /\ obs' = [obs EXCEPT ![s] = NoObs]
  /\ UNCHANGED << dbVars, authUser, userRole, needs, selectedNeed, selectedCamp, pc,
                  quantity >>
  /\ UNCHANGED << userDashVars, mountVars >>
  /\ UNCHANGED orderVars

(* the form's min / max attributes: what the browser's validation admits *)
FormAdmits(snapshot, n) ==
  /\ ~n.nan
  /\ n.val >= 1
  /\ n.val <= snapshot.quantity_needed - snapshot.quantity_fulfilled

(* the insert's error leaves the handler for its catch, written as if the  *)
(* throw statements were missing                                           *)
AfterInsertUnchecked(res) == "inserted"

(* if (!user) throw ...; if (error) throw error: where the handler is      *)
(* after the ledger insert answered res                                    *)
AfterInsert(res) == IF res = Ok THEN "inserted" ELSE "idle"

(* handleProvideAssistance, up to the ledger insert's response *)
PledgeInsert(s, input) ==
  /\ userRole[s] = "ngo"
  /\ pc[s] = "idle"
  /\ selectedNeed[s] # Null
  /\ showAssistDialog[s]
  /\ LET qty == parseInt(input)
         row == [ ngo_id |-> authUser[s], camp_id |-> selectedNeed[s].camp_id,
                  need_id |-> selectedNeed[s].id, quantity |-> qty ]
         res == IF authUser[s] = NoUser THEN NotAuthenticated
                ELSE AssistanceInsertResult(authUser[s], row)
     IN IF res = Ok
        THEN /\ Len(ngo_assistance) < MaxLedger
             /\ ngo_assistance' = Append(ngo_assistance, AssistanceRow(row))
             /\ pc' = [pc EXCEPT ![s] = AfterInsert(res)]
             /\ quantity' = [quantity EXCEPT ![s] = qty.val]
             /\ toasts' = [toasts EXCEPT ![s] = {}]
             /\ obs' = [obs EXCEPT ![s] =
                  [ NoObs EXCEPT !.entry = Len(ngo_assistance) + 1, !.q = qty.val ]]
        ELSE /\ toasts' = [toasts EXCEPT ![s] = {res}]
             /\ obs' = [obs EXCEPT ![s] = NoObs]
             /\ pc' = [pc EXCEPT ![s] = AfterInsert(res)]
             /\ UNCHANGED << ngo_assistance, quantity >>
  /\ UNCHANGED << profiles, camps, campIdsIssued, camp_needs, needIdsIssued,
                  authUser, userRole, needs, selectedNeed, showAssistDialog,
                  selectedCamp >>
  /\ UNCHANGED << userDashVars, mountVars >>
  /\ UNCHANGED orderVars

(* what the handler writes to the need, from its snapshot *)
NewFulfilled(snapshot, qty) == snapshot.quantity_fulfilled + qty

NewStatus(snapshot, qty) ==
  IF NewFulfilled(snapshot, qty) >= snapshot.quantity_needed THEN "fulfilled" ELSE "partial"

(* UPDATE camp_needs SET ... WHERE id = n: the rows the policy lets the    *)
(* caller see are updated; no row matching is not an error.                *)
CampNeedsUpdate(uid, n, fulfilled, status) ==
  IF camp_needs[n] # NoRow /\ CampNeedsManagePolicy(uid, camp_needs[n].camp_id)
  THEN [camp_needs EXCEPT ![n].quantity_fulfilled = fulfilled, ![n].status = status]
  ELSE camp_needs

(* handleProvideAssistance: the need update; its result is not looked at,  *)
(* so a request that fails (delivered = FALSE) goes unnoticed.             *)
PledgeUpdate(s, delivered) ==
  /\ pc[s] = "inserted"
  /\ LET n == selectedNeed[s].id
     IN /\ camp_needs' =
             IF delivered
             THEN CampNeedsUpdate(authUser[s], n,
                                  NewFulfilled(selectedNeed[s], quantity[s]),
                                  NewStatus(selectedNeed[s], quantity[s]))
             ELSE camp_needs
        /\ obs' = [obs EXCEPT ![s].pre = camp_needs[n], ![s].post = camp_needs'[n]]
  /\ pc' = [pc EXCEPT ![s] = "updated"]
  /\ UNCHANGED << profiles, camps, campIdsIssued, needIdsIssued, ngo_assistance,
                  authUser, userRole, needs, selectedNeed, showAssistDialog,
                  selectedCamp, quantity, toasts >>
  /\ UNCHANGED << userDashVars, mountVars >>
  /\ UNCHANGED orderVars

(* handleProvideAssistance: fetchData, close the dialog, report success *)
PledgeFinish(s, ok) ==
  /\ pc[s] = "updated"
  /\ needs' = [needs EXCEPT ![s] = IF ok THEN OpenNeedsQuery(camp_needs) ELSE @]
  /\ showAssistDialog' = [showAssistDialog EXCEPT ![s] = FALSE]
  /\ selectedNeed' = [selectedNeed EXCEPT ![s] = Null]
  /\ toasts' = [toasts EXCEPT ![s] =
       (IF ok THEN {} ELSE {"Failed to load data"}) \cup {"Assistance pledged successfully!"}]
  /\ obs' = [obs EXCEPT ![s].reported = TRUE]
  /\ pc' = [pc EXCEPT ![s] = "idle"]
  /\ quantity' = [quantity EXCEPT ![s] = 0]
  /\ UNCHANGED << dbVars, authUser, userRole, selectedCamp >>
  /\ UNCHANGED << userDashVars, mountVars >>
  /\ UNCHANGED orderVars

(* UPDATE camps SET occupied_seats = seats WHERE id = c, as "Camp admins  *)
(* can update own camps" admits it; the column carries no CHECK.           *)
UpdateCampSeats(uid, c, seats) ==
  /\ camps[c] # NoRow
  /\ CampsUpdatePolicy(uid, camps[c])
  /\ camps[c].occupied_seats # seats
  /\ camps' = [camps EXCEPT ![c].occupied_seats = seats]
  /\ UNCHANGED << profiles, campIdsIssued, camp_needs, needIdsIssued, ngo_assistance,
                  authUser, userRole, needs, selectedNeed, showAssistDialog,
                  selectedCamp, pc, quantity, toasts, obs >>
  /\ UNCHANGED << userDashVars, mountVars >>
  /\ UNCHANGED orderVars

(* ------------------------- deleting a camp ----------------------------- *)
(* camp_id REFERENCES camps(id) ON DELETE CASCADE, of ngo_assistance and   *)
(* of volunteers: the rows of camp c go with it                            *)
CascadeOnCampDelete(table, c) == SelectSeq(table, LAMBDA row : row.camp_id # c)

(* camp_needs.camp_id REFERENCES camps(id) ON DELETE CASCADE *)
NeedsCascadeOnCampDelete(table, c) ==
  [ n \in NeedIds |->
      IF table[n] # NoRow /\ table[n].camp_id = c THEN NoRow ELSE table[n] ]

(* ON DELETE SET NULL for every need that went with the camp *)
RECURSIVE SetNullOnNeedsDelete(_, _)
SetNullOnNeedsDelete(ledger, ns) ==
  IF ns = {} THEN ledger
  ELSE LET n == CHOOSE m \in ns : TRUE
       IN SetNullOnNeedsDelete(SetNullOnNeedDelete(ledger, n), ns \ {n})

(* DELETE FROM camps WHERE id = c, by the project's owner: no row policy   *)
(* lets a client delete a camp.                                            *)
DeleteCamp(c) ==
  /\ camps[c] # NoRow
  /\ camps' = [camps EXCEPT ![c] = NoRow]
  /\ camp_needs' = NeedsCascadeOnCampDelete(camp_needs, c)
  /\ ngo_assistance' =
       SetNullOnNeedsDelete(CascadeOnCampDelete(ngo_assistance, c),
                            { n \in NeedIds : camp_needs[n] # NoRow /\ camp_needs[n].camp_id = c })
  /\ volunteers' = CascadeOnCampDelete(volunteers, c)
  /\ UNCHANGED << profiles, campIdsIssued, needIdsIssued, authUser, userRole, needs,
                  selectedNeed, showAssistDialog, selectedCamp, pc, quantity, toasts, obs,
                  campList, volunteerFor, mountVars, orderVars >>

(* ---------------------------- UserDashboard ---------------------------- *)
(* The dashboard is mounted (or reloaded): fetchCamps loads the active     *)
(* camps; when the request fails the list stays empty and "Failed to load  *)
(* camps" is shown.                                                        *)
fetchCamps(s, ok) ==
  /\ userRole[s] = "user"
  /\ pc[s] = "idle"
  /\ campList' = [campList EXCEPT ![s] = IF ok THEN ActiveCampsQuery(camps) ELSE NoCamps]
  /\ toasts' = [toasts EXCEPT ![s] = IF ok THEN {} ELSE {"Failed to load camps"}]
  /\ UNCHANGED << dbVars, authUser, userRole, needs, selectedNeed, showAssistDialog,
                  selectedCamp, pc, quantity, obs, volunteers, volunteerFor, mountVars >>
  /\ UNCHANGED orderVars

availableSeats(camp) == camp.total_capacity - camp.occupied_seats

(* "Register as Volunteer" on a listed camp (the button is disabled when   *)
(* the listed camp has availableSeats = 0): handleVolunteer up to the      *)
(* answer of getUser.                                                      *)
handleVolunteer(s, campId) ==
  /\ userRole[s] = "user"
  /\ pc[s] = "idle"
  /\ campList[s][campId] # NoRow
  /\ availableSeats(campList[s][campId]) # 0
  /\ IF authUser[s] = NoUser
     THEN /\ toasts' = [toasts EXCEPT ![s] = {"Failed to register as volunteer"}]
          /\ UNCHANGED << pc, volunteerFor >>
     ELSE /\ toasts' = [toasts EXCEPT ![s] = {}]
          /\ pc' = [pc EXCEPT ![s] = "registering"]
          /\ volunteerFor' = [volunteerFor EXCEPT ![s] =
                                [ user_id |-> authUser[s], camp_id |-> campId ]]
  /\ UNCHANGED << dbVars, authUser, userRole, needs, selectedNeed, showAssistDialog,
                  selectedCamp, quantity, obs, volunteers, campList, mountVars >>
  /\ UNCHANGED orderVars

(* error.message?.includes("duplicate"): of the store's messages only the  *)
(* unique violation's has the word                                         *)
IncludesDuplicate(message) == message = DuplicateError

(* handleVolunteer: the insert, its answer and the message shown *)
VolunteerInsert(s) ==
  /\ pc[s] = "registering"
  /\ LET row == [ user_id |-> volunteerFor[s].user_id, camp_id |-> volunteerFor[s].camp_id,
                  volunteer_type |-> "camp_volunteer", status |-> "active" ]
         res == VolunteersInsertResult(authUser[s], row)
     IN IF res = Ok
        THEN /\ Len(volunteers) < MaxVolunteers
             /\ volunteers' = Append(volunteers, VolunteersRow(row))
             /\ toasts' = [toasts EXCEPT ![s] = {"Successfully registered as volunteer!"}]
        ELSE /\ toasts' = [toasts EXCEPT ![s] =
                  IF IncludesDuplicate(res)
                  THEN {"You're already registered for this camp"}
                  ELSE {"Failed to register as volunteer"}]
             /\ UNCHANGED volunteers
  /\ pc' = [pc EXCEPT ![s] = "idle"]
  /\ volunteerFor' = [volunteerFor EXCEPT ![s] = Null]
  /\ UNCHANGED << dbVars, authUser, userRole, needs, selectedNeed, showAssistDialog,
                  selectedCamp, quantity, obs, campList, mountVars >>
  /\ UNCHANGED orderVars

(* ------------------------------ the ledger ----------------------------- *)
(* UPDATE ngo_assistance SET column = value WHERE id = (entry i), sent by  *)
(* uid: it applies when the policy shows the row to uid and the updated    *)
(* row passes the policy and the constraints; otherwise nothing changes.   *)
UpdateAssistance(uid, i, column, value) ==
  /\ i \in DOMAIN ngo_assistance
  /\ AssistanceUpdatePolicy(uid, ngo_assistance[i])
  /\ AssistanceUpdateResult(uid, AssistancePatched(ngo_assistance[i], column, value)) = Ok
  /\ ngo_assistance' =
       [ngo_assistance EXCEPT ![i] = AssistancePatched(ngo_assistance[i], column, value)]
  /\ UNCHANGED << profiles, camps, campIdsIssued, camp_needs, needIdsIssued, authUser,
                  userRole, needs, selectedNeed, showAssistDialog, selectedCamp, pc,
                  quantity, toasts, obs >>
  /\ UNCHANGED << userDashVars, mountVars >>
  /\ UNCHANGED orderVars

(* ------------------- the order of the needs queries -------------------- *)
(* NGODashboard.fetchData and CampDashboard.fetchNeeds: the rows come back *)
(* under .order("urgency", { ascending: false })                           *)
orderByUrgency ==
  /\ fetchedUrgency' = order(urgencyColumn, FALSE)
  /\ UNCHANGED << dbVars, authUser, userRole, needs, selectedNeed, showAssistDialog,
                  selectedCamp, pc, quantity, toasts, obs, userDashVars, mountVars,
                  urgencyColumn >>

(* ------------------- CampDashboard: choosing a camp -------------------- *)
(* fetchNeeds(campId) in flight *)
NeedsReq(campId) == [ req |-> "fetchNeeds", campId |-> campId ]

NeedsRequests == { NeedsReq(c) : c \in CampIds }

(* handleCampSelect on one of the administrator's camps: the camp is       *)
(* selected and fetchNeeds is sent.                                        *)
handleCampSelect(s, c) ==
  /\ userRole[s] = "camp"
  /\ pc[s] = "idle"
  /\ authUser[s] # NoUser
  /\ c \in CampsOf(authUser[s])
  /\ NeedsReq(c) \notin pending[s]
  /\ selectedCamp' = [selectedCamp EXCEPT ![s] = c]
  /\ pending' = [pending EXCEPT ![s] = @ \cup {NeedsReq(c)}]
  /\ toasts' = [toasts EXCEPT ![s] = {}]
  /\ UNCHANGED << dbVars, authUser, userRole, needs, selectedNeed, showAssistDialog,
                  pc, quantity, obs, userDashVars, loading, session >>
  /\ UNCHANGED orderVars

(* fetchNeeds: the answer for camp c, which sets the list whatever camp is *)
(* selected by now; an error is written to the console only.               *)
fetchNeedsReturns(s, c, ok) ==
  /\ NeedsReq(c) \in pending[s]
  /\ pending' = [pending EXCEPT ![s] = @ \ {NeedsReq(c)}]
  /\ needs' = [needs EXCEPT ![s] = IF ok THEN CampNeedsQuery(camp_needs, c) ELSE @]
  /\ toasts' = [toasts EXCEPT ![s] = {}]
  /\ UNCHANGED << dbVars, authUser, userRole, selectedNeed, showAssistDialog,
                  selectedCamp, pc, quantity, obs, userDashVars, loading, session >>
  /\ UNCHANGED orderVars

(* ----------------------- Index and the mounts -------------------------- *)
(* The page step by step: Index mounts with loading = true, its effect     *)
(* subscribes to the auth events and asks for the stored session; each     *)
(* answer is a step of its own, and so is the answer to the fetch a        *)
(* dashboard sends when Index renders it.                                  *)

(* a request or callback still to come back *)
Req(name) == [ req |-> name, userId |-> NoUser, by |-> "" ]

RoleReq(userId, by) == [ req |-> "fetchUserRole", userId |-> userId, by |-> by ]

(* finally { setLoading(false) } of the fetch handlers, on the success     *)
(* path only: what loading would be left at without the finally            *)
LoadingWithoutFinally(ok) == ~ok

(* finally { setLoading(false) }: the flag after the handler, whether the  *)
(* request succeeded (ok) or not                                           *)
LoadingAfter(ok) == FALSE

(* Index's render: the dashboard it shows *)
Dashboard(role) ==
  CASE role = "user" -> "UserDashboard"
    [] role = "camp" -> "CampDashboard"
    [] role = "ngo" -> "NGODashboard"
    [] OTHER -> "none"

Shown(sess, role, indexLoading) ==
  IF indexLoading \/ sess = NoUser THEN "none" ELSE Dashboard(role)

(* the fetch a dashboard's effect sends at mount *)
FetchOf(view) ==
  CASE view = "UserDashboard" -> Req("fetchCamps")
    [] view = "CampDashboard" -> Req("fetchCampData")
    [] view = "NGODashboard" -> Req("fetchData")

DashboardFetches == { Req("fetchCamps"), Req("fetchCampData"), Req("fetchData") }

(* Index re-renders with the given session, role and loading flag, pend    *)
(* still in flight: a dashboard that is no longer shown is unmounted (the  *)
(* answer to its fetch comes back to nothing), a dashboard newly shown is  *)
(* mounted with fresh state, loading = true and its fetch in flight.       *)
IndexRenders(s, sess, role, indexLoading, pend) ==
  LET old == Shown(session[s], userRole[s], loading[s]["Index"])
      new == Shown(sess, role, indexLoading)
  IN /\ session' = [session EXCEPT ![s] = sess]
     /\ userRole' = [userRole EXCEPT ![s] = role]
     /\ loading' = [loading EXCEPT ![s] =
          [ v \in Views |->
              IF v = "Index" THEN indexLoading
              ELSE IF v # new THEN FALSE
              ELSE IF new = old THEN loading[s][v] ELSE TRUE ]]
     /\ pending' = [pending EXCEPT ![s] =
          IF new = old THEN pend
          ELSE (pend \ DashboardFetches) \cup (IF new = "none" THEN {} ELSE {FetchOf(new)})]
     /\ IF new = old
        THEN UNCHANGED << needs, selectedNeed, showAssistDialog, selectedCamp, campList >>
        ELSE /\ needs' = [needs EXCEPT ![s] = NoNeeds]
             /\ selectedNeed' = [selectedNeed EXCEPT ![s] = Null]
             /\ showAssistDialog' = [showAssistDialog EXCEPT ![s] = FALSE]
             /\ selectedCamp' = [selectedCamp EXCEPT ![s] = NULL]
             /\ campList' = [campList EXCEPT ![s] = NoCamps]

(* The browser comes to "/", after the user u has signed in on /auth or   *)
(* with nobody signed in (u = NoUser): Index mounts.                       *)
IndexMount(s, u) ==
  /\ authUser[s] = NoUser
  /\ session[s] = NoUser
  /\ ~loading[s]["Index"]
  /\ pending[s] = {}
  /\ pc[s] = "idle"
  /\ u # NoUser => profiles[u] # NoProfile
  /\ authUser' = [authUser EXCEPT ![s] = u]
  /\ toasts' = [toasts EXCEPT ![s] = {}]
  /\ IndexRenders(s, NoUser, NoProfile, TRUE, {Req("getSession"), Req("authEvent")})
  /\ UNCHANGED << dbVars, pc, quantity, obs, volunteers, volunteerFor >>
  /\ UNCHANGED orderVars

(* supabase.auth.getSession().then(...) *)
getSessionThen(s) ==
  /\ Req("getSession") \in pending[s]
  /\ IF authUser[s] # NoUser
     THEN IndexRenders(s, authUser[s], userRole[s], loading[s]["Index"],
                       (pending[s] \ {Req("getSession")})
                         \cup {RoleReq(authUser[s], "getSession")})
     ELSE IndexRenders(s, NoUser, userRole[s], FALSE, pending[s] \ {Req("getSession")})
  /\ toasts' = [toasts EXCEPT ![s] = {}]
  /\ UNCHANGED << dbVars, authUser, pc, quantity, obs, volunteers, volunteerFor >>
  /\ UNCHANGED orderVars

(* the callback given to supabase.auth.onAuthStateChange, on an event *)
onAuthStateChange(s) ==
  /\ Req("authEvent") \in pending[s]
  /\ IF authUser[s] # NoUser
     THEN IndexRenders(s, authUser[s], userRole[s], loading[s]["Index"],
                       (pending[s] \ {Req("authEvent")})
                         \cup {RoleReq(authUser[s], "authEvent")})
     ELSE IndexRenders(s, NoUser, NoProfile, FALSE, pending[s] \ {Req("authEvent")})
  /\ toasts' = [toasts EXCEPT ![s] = {}]
  /\ UNCHANGED << dbVars, authUser, pc, quantity, obs, volunteers, volunteerFor >>
  /\ UNCHANGED orderVars

(* the client refreshes its token: a TOKEN_REFRESHED event is on its way *)
TokenRefreshed(s) ==
  /\ authUser[s] # NoUser
  /\ session[s] # NoUser
  /\ Req("authEvent") \notin pending[s]
  /\ pending' = [pending EXCEPT ![s] = @ \cup {Req("authEvent")}]
  /\ UNCHANGED << dbVars, authUser, userRole, needs, selectedNeed, showAssistDialog,
                  selectedCamp, pc, quantity, toasts, obs, userDashVars, loading, session >>
  /\ UNCHANGED orderVars

(* The stored session changes while Index stays mounted (the user signs   *)
(* out, or another user signs in, in another tab of the same browser): an  *)
(* auth event with the new session, or with none, is on its way.           *)
AuthChangedElsewhere(s, u) ==
  /\ session[s] # NoUser
  /\ pc[s] = "idle"
  /\ u # authUser[s]
  /\ u # NoUser => profiles[u] # NoProfile
  /\ Req("authEvent") \notin pending[s]
  /\ authUser' = [authUser EXCEPT ![s] = u]
  /\ pending' = [pending EXCEPT ![s] = @ \cup {Req("authEvent")}]
  /\ UNCHANGED << dbVars, userRole, needs, selectedNeed, showAssistDialog,
                  selectedCamp, pc, quantity, toasts, obs, userDashVars, loading, session >>
  /\ UNCHANGED orderVars

(* fetchUserRole: the answer of the profiles query, ok or an error; the    *)
(* error is written to the console only.                                   *)
fetchUserRole(s, r, ok) ==
  /\ r \in pending[s]
  /\ r.req = "fetchUserRole"
  /\ IndexRenders(s, session[s],
                  IF ok THEN profiles[r.userId] ELSE userRole[s],
                  LoadingAfter(ok) /\ loading[s]["Index"],
                  pending[s] \ {r})
  /\ toasts' = [toasts EXCEPT ![s] = {}]
  /\ UNCHANGED << dbVars, authUser, pc, quantity, obs, volunteers, volunteerFor >>
  /\ UNCHANGED orderVars

(* UserDashboard.fetchCamps: the answer to the fetch sent at mount *)
fetchCampsReturns(s, ok) ==
  /\ Req("fetchCamps") \in pending[s]
  /\ pending' = [pending EXCEPT ![s] = @ \ {Req("fetchCamps")}]
  /\ campList' = [campList EXCEPT ![s] = IF ok THEN ActiveCampsQuery(camps) ELSE @]
  /\ toasts' = [toasts EXCEPT ![s] = IF ok THEN {} ELSE {"Failed to load camps"}]
  /\ loading' = [loading EXCEPT ![s]["UserDashboard"] = LoadingAfter(ok) /\ @]
  /\ UNCHANGED << dbVars, authUser, userRole, needs, selectedNeed, showAssistDialog,
                  selectedCamp, pc, quantity, obs, volunteers, volunteerFor, session >>
  /\ UNCHANGED orderVars

(* CampDashboard.fetchCampData: getUser, the camps query (okCamps) and,    *)
(* for the first camp, fetchNeeds (okNeeds), whose error is written to the *)
(* console only.                                                           *)
fetchCampDataReturns(s, okCamps, okNeeds) ==
  /\ Req("fetchCampData") \in pending[s]
  /\ pending' = [pending EXCEPT ![s] = @ \ {Req("fetchCampData")}]
  /\ IF authUser[s] = NoUser \/ ~okCamps
     THEN /\ toasts' = [toasts EXCEPT ![s] = {"Failed to load camp data"}]
          /\ UNCHANGED << selectedCamp, needs >>
     ELSE /\ toasts' = [toasts EXCEPT ![s] = {}]
          /\ IF CampsOf(authUser[s]) # {} /\ selectedCamp[s] = NULL
             THEN /\ selectedCamp' = [selectedCamp EXCEPT ![s] = Newest(CampsOf(authUser[s]))]
                  /\ needs' = [needs EXCEPT ![s] =
                       IF okNeeds
                       THEN CampNeedsQuery(camp_needs, Newest(CampsOf(authUser[s])))
                       ELSE @]
             ELSE UNCHANGED << selectedCamp, needs >>
  /\ loading' = [loading EXCEPT ![s]["CampDashboard"] =
                  LoadingAfter(authUser[s] # NoUser /\ okCamps) /\ @]
  /\ UNCHANGED << dbVars, authUser, userRole, selectedNeed, showAssistDialog, pc,
                  quantity, obs, userDashVars, session >>
  /\ UNCHANGED orderVars

(* NGODashboard.fetchData: the answer to the fetch sent at mount *)
fetchDataReturns(s, ok) ==
  /\ Req("fetchData") \in pending[s]
  /\ pending' = [pending EXCEPT ![s] = @ \ {Req("fetchData")}]
  /\ needs' = [needs EXCEPT ![s] = IF ok THEN OpenNeedsQuery(camp_needs) ELSE @]
  /\ toasts' = [toasts EXCEPT ![s] = IF ok THEN {} ELSE {"Failed to load data"}]
  /\ loading' = [loading EXCEPT ![s]["NGODashboard"] = LoadingAfter(ok) /\ @]
  /\ UNCHANGED << dbVars, authUser, userRole, selectedNeed, showAssistDialog,
                  selectedCamp, pc, quantity, obs, userDashVars, session >>
  /\ UNCHANGED orderVars

(* ------------------------------- Next ---------------------------------- *)
(* accounts and the sessions S *)
NextAccounts(S) ==
  \/ \E uid \in Users, u \in Users, r \in Roles : UpdateProfileRole(uid, u, r)
  \/ \E s \in S, u \in Users : SignIn(s, u)
  \/ \E s \in S : handleSignOut(s)

(* the administrators work from one browser *)
CampSessions == {1}

(* the camp administrator's side, from an empty database *)
NextCamp ==
  \/ \E u \in Users, r \in Roles \cup {NoProfile} : handle_new_user(u, r)
  \/ NextAccounts(CampSessions)
  \/ \E s \in CampSessions : fetchCampData(s)
  \/ \E s \in CampSessions, c \in CapacityInputs, o \in OccupiedInputs : handleCreateCamp(s, c, o)
  \/ \E s \in CampSessions, i \in NeedInputs : handleAddNeed(s, i)
  \/ \E uid \in Users, n \in NeedIds : DeleteNeed(uid, n)

SpecCamp == Init /\ [][NextCamp]_vars

(* A deployment in use, as SpecCamp reaches it: user 1 signed up as a camp *)
(* administrator, created camp 1 and asked for 10 of an item; user 2       *)
(* signed up with the given role (an NGO in Onboarded); everybody has      *)
(* signed out again.                                                       *)
Deployed(role) ==
  /\ profiles = [ u \in Users |-> IF u = 1 THEN "camp" ELSE role ]
  /\ camps = [ c \in CampIds |->
       IF c = 1 THEN CampsRow([ camp_admin_id |-> 1, total_capacity |-> parseInt(<<"2">>),
                                occupied_seats |-> parseInt(<<"0">>) ])
       ELSE NoRow ]
  /\ campIdsIssued = 1
  /\ camp_needs = [ n \in NeedIds |->
       IF n = 1 THEN CampNeedsRow([ camp_id |-> 1, quantity_needed |-> parseInt(<<"1", "0">>) ])
       ELSE NoRow ]
  /\ needIdsIssued = 1
  /\ ngo_assistance = << >>
  /\ volunteers = << >>

(* nobody is signed in and no view is up *)
SignedOut ==
  /\ authUser = [ s \in Sessions |-> NoUser ]
  /\ userRole = [ s \in Sessions |-> NoProfile ]
  /\ needs = [ s \in Sessions |-> NoNeeds ]
  /\ selectedNeed = [ s \in Sessions |-> Null ]
  /\ showAssistDialog = [ s \in Sessions |-> FALSE ]
  /\ selectedCamp = [ s \in Sessions |-> NULL ]
  /\ pc = [ s \in Sessions |-> "idle" ]
  /\ quantity = [ s \in Sessions |-> 0 ]
  /\ toasts = [ s \in Sessions |-> {} ]
  /\ obs = [ s \in Sessions |-> NoObs ]
  /\ campList = [ s \in Sessions |-> NoCamps ]
  /\ volunteerFor = [ s \in Sessions |-> Null ]
  /\ loading = [ s \in Sessions |-> NotLoading ]
  /\ pending = [ s \in Sessions |-> {} ]
  /\ session = [ s \in Sessions |-> NoUser ]

(* no needs query is looked at *)
Unfetched == urgencyColumn = << >> /\ fetchedUrgency = << >>

OnboardedAs(role) == Deployed(role) /\ SignedOut /\ Unfetched

Onboarded == OnboardedAs("ngo")

(* The same deployment with user 2 signed up as a member of the public.    *)
Volunteering == OnboardedAs("user")

(* the NGOs' side, on the deployment in use: the sessions S pledge with   *)
(* the quantities of inputs                                                *)
NextNgo(S, inputs) ==
  \/ NextAccounts(S)
  \/ \E uid \in Users, n \in NeedIds : DeleteNeed(uid, n)
  \/ \E s \in S, ok \in BOOLEAN : fetchData(s, ok)
  \/ \E s \in S, n \in NeedIds : SelectNeed(s, n)
  \/ \E s \in S : CloseDialog(s)
  \/ \E s \in S, i \in inputs : PledgeInsert(s, i)
  \/ \E s \in S, d \in BOOLEAN : PledgeUpdate(s, d)
  \/ \E s \in S, ok \in BOOLEAN : PledgeFinish(s, ok)

(* every session at work: pledges race *)
Next == NextNgo(Sessions, PledgeInputs)

Spec == Onboarded /\ [][Next]_vars

(* one session at work: pledges follow one another *)
NextSolo == NextNgo({1}, SoloPledgeInputs)

SpecSolo == Onboarded /\ [][NextSolo]_vars

(* one session at work, with the quantities of the racing sessions *)
NextOne == NextNgo({1}, PledgeInputs)

SpecOne == Onboarded /\ [][NextOne]_vars

(* one session pledging, and the ledger's rows updated through the API *)
NextLedger ==
  \/ NextOne
  \/ \E uid \in Users, i \in 1..MaxLedger, p \in AssistancePatches :
       UpdateAssistance(uid, i, p[1], p[2])

SpecLedger == Onboarded /\ [][NextLedger]_vars

(* the volunteers' side, on the deployment in use: members of the public  *)
(* register while the camp's administrator keeps its seat count            *)
NextReg ==
  \/ \E s \in Sessions, u \in Users : SignIn(s, u)
  \/ \E s \in Sessions : handleSignOut(s)
  \/ \E s \in Sessions, ok \in BOOLEAN : fetchCamps(s, ok)
  \/ \E s \in Sessions, c \in CampIds : handleVolunteer(s, c)
  \/ \E s \in Sessions : VolunteerInsert(s)
  \/ \E uid \in Users, c \in CampIds, o \in SeatInputs : UpdateCampSeats(uid, c, o)

SpecReg == Volunteering /\ [][NextReg]_vars

(* the requests a session may have in flight *)
Requests ==
  { Req("getSession"), Req("authEvent") } \cup DashboardFetches
    \cup { RoleReq(u, by) : u \in Users, by \in {"getSession", "authEvent"} }

(* the request r of session s comes back, with data or with an error *)
Returns(s, r) ==
  \/ r = Req("getSession") /\ getSessionThen(s)
  \/ r = Req("authEvent") /\ onAuthStateChange(s)
  \/ \E ok \in BOOLEAN : fetchUserRole(s, r, ok)
  \/ r = Req("fetchCamps") /\ \E ok \in BOOLEAN : fetchCampsReturns(s, ok)
  \/ r = Req("fetchCampData") /\ \E okCamps \in BOOLEAN, okNeeds \in BOOLEAN :
       fetchCampDataReturns(s, okCamps, okNeeds)
  \/ r = Req("fetchData") /\ \E ok \in BOOLEAN : fetchDataReturns(s, ok)

(* the page of the sessions S from its mount: visitors arrive, signed in   *)
(* or not, views load, tokens are refreshed, roles are changed, users sign *)
(* out                                                                     *)
NextPage(S) ==
  \/ \E uid \in Users, u \in Users, r \in Roles : UpdateProfileRole(uid, u, r)
  \/ \E s \in S, u \in Users \cup {NoUser} : IndexMount(s, u)
  \/ \E s \in S : TokenRefreshed(s)
  \/ \E s \in S : handleSignOut(s)
  \/ \E s \in S, r \in Requests : Returns(s, r)

(* one page: the views of a page load on their own *)
PageSessions == {1}

NextLoad == NextPage(PageSessions)

SpecLoad == Onboarded /\ [][NextLoad]_vars

(* every request that is in flight eventually comes back *)
SpecLoadFair ==
  SpecLoad /\ \A s \in PageSessions, r \in Requests : WF_vars(Returns(s, r))

(* the urgency columns of up to MaxRows rows *)
UrgencyColumns == UNION { [ 1..n -> Urgencies ] : n \in 0..MaxRows }

(* the rows matched by a needs query hold any urgencies the CHECK admits *)
NeedsStored ==
  /\ Deployed("ngo")
  /\ SignedOut
  /\ urgencyColumn \in UrgencyColumns
  /\ fetchedUrgency = << >>

NextOrder == orderByUrgency

SpecOrder == NeedsStored /\ [][NextOrder]_vars

(* one page of a camp administrator's and an NGO's browser while no        *)
(* profile changes: visitors arrive, views load, tokens are refreshed,     *)
(* users sign out, and the session may change in another tab               *)
NextTabs ==
  \/ \E u \in Users \cup {NoUser} : IndexMount(1, u)
  \/ TokenRefreshed(1)
  \/ handleSignOut(1)
  \/ \E u \in Users \cup {NoUser} : AuthChangedElsewhere(1, u)
  \/ getSessionThen(1)
  \/ onAuthStateChange(1)
  \/ \E r \in Requests, ok \in BOOLEAN : fetchUserRole(1, r, ok)
  \/ \E okCamps \in BOOLEAN, okNeeds \in BOOLEAN : fetchCampDataReturns(1, okCamps, okNeeds)
  \/ \E ok \in BOOLEAN : fetchDataReturns(1, ok)

SpecTabs == Onboarded /\ [][NextTabs]_vars

(* User 1 signed up as a camp administrator and created camp 1; no need   *)
(* has been asked for yet; user 2 signed up as an NGO; nobody is signed in.*)
CampOpened ==
  /\ profiles = [ u \in Users |-> IF u = 1 THEN "camp" ELSE "ngo" ]
  /\ camps = [ c \in CampIds |->
       IF c = 1 THEN CampsRow([ camp_admin_id |-> 1, total_capacity |-> parseInt(<<"2">>),
                                occupied_seats |-> parseInt(<<"0">>) ])
       ELSE NoRow ]
  /\ campIdsIssued = 1
  /\ camp_needs = [ n \in NeedIds |-> NoRow ]
  /\ needIdsIssued = 0
  /\ ngo_assistance = << >>
  /\ volunteers = << >>
  /\ SignedOut
  /\ Unfetched

(* one administrator's dashboard: camps are created and chosen, needs are  *)
(* asked for, and the answers of fetchNeeds come back in any order         *)
NextSelect ==
  \/ \E u \in Users : SignIn(1, u)
  \/ handleSignOut(1)
  \/ fetchCampData(1)
  \/ \E c \in CapacityInputs, o \in OccupiedInputs : handleCreateCamp(1, c, o)
  \/ \E i \in NeedInputs : handleAddNeed(1, i)
  \/ \E c \in CampIds : handleCampSelect(1, c)
  \/ \E c \in CampIds, ok \in BOOLEAN : fetchNeedsReturns(1, c, ok)

SpecSelect == CampOpened /\ [][NextSelect]_vars

(* one browser whose token may stop being valid at any moment, in front of *)
(* each dashboard in turn: user 2 takes each role, user 1 administers      *)
(* the quantity field of the add-need form: left empty, or ten *)
GuestNeedInputs == { <<>>, <<"1", "0">> }

NextGuest ==
  \/ \E r \in Roles : UpdateProfileRole(2, 2, r)
  \/ \E u \in Users : SignIn(1, u)
  \/ handleSignOut(1)
  \/ SessionRevoked(1)
  \/ fetchCampData(1)
  \/ \E c \in CapacityInputs : handleCreateCamp(1, c, <<"0">>)
  \/ \E i \in GuestNeedInputs : handleAddNeed(1, i)
  \/ \E ok \in BOOLEAN : fetchData(1, ok)
  \/ \E n \in NeedIds : SelectNeed(1, n)
  \/ \E i \in PledgeInputs : PledgeInsert(1, i)
  \/ \E d \in BOOLEAN : PledgeUpdate(1, d)
  \/ \E ok \in BOOLEAN : PledgeFinish(1, ok)
  \/ \E ok \in BOOLEAN : fetchCamps(1, ok)
  \/ \E c \in CampIds : handleVolunteer(1, c)
  \/ VolunteerInsert(1)

(* every camp id is taken by a camp of administrator 1; no need has been  *)
(* asked for yet; the others signed up as NGOs; nobody is signed in.       *)
CampsOpened ==
  /\ profiles = [ u \in Users |-> IF u = 1 THEN "camp" ELSE "ngo" ]
  /\ camps = [ c \in CampIds |->
       CampsRow([ camp_admin_id |-> 1, total_capacity |-> parseInt(<<"2">>),
                  occupied_seats |-> parseInt(<<"0">>) ]) ]
  /\ campIdsIssued = MaxCamps
  /\ camp_needs = [ n \in NeedIds |-> NoRow ]
  /\ needIdsIssued = 0
  /\ ngo_assistance = << >>
  /\ volunteers = << >>
  /\ SignedOut
  /\ Unfetched

SpecGuest == CampsOpened /\ [][NextGuest]_vars

(* one NGO session whose token may stop being valid at any moment *)
NextRevoke == NextOne \/ SessionRevoked(1)

SpecRevoke == Onboarded /\ [][NextRevoke]_vars

(* one session in front of the NGO's and the volunteer's dashboards while  *)
(* needs and camps are deleted                                             *)
NextDelete ==
  \/ \E r \in Roles : UpdateProfileRole(2, 2, r)
  \/ \E u \in Users : SignIn(1, u)
  \/ handleSignOut(1)
  \/ \E ok \in BOOLEAN : fetchData(1, ok)
  \/ \E n \in NeedIds : SelectNeed(1, n)
  \/ \E i \in PledgeInputs : PledgeInsert(1, i)
  \/ \E d \in BOOLEAN : PledgeUpdate(1, d)
  \/ \E ok \in BOOLEAN : PledgeFinish(1, ok)
  \/ \E ok \in BOOLEAN : fetchCamps(1, ok)
  \/ \E c \in CampIds : handleVolunteer(1, c)
  \/ VolunteerInsert(1)
  \/ \E uid \in Users, n \in NeedIds : DeleteNeed(uid, n)
  \/ \E c \in CampIds : DeleteCamp(c)

SpecDelete == Onboarded /\ [][NextDelete]_vars

(* every session at work, and tokens may be revoked while a dashboard is up *)
NextAuth == Next \/ \E s \in Sessions : SessionRevoked(s)

SpecAuth == Onboarded /\ [][NextAuth]_vars

(* ------------------------------ properties ---------------------------- *)
(* the status a need is to carry for its quantities: fulfilled iff         *)
(* fulfilled >= needed, else partial iff fulfilled > 0, else pending       *)
StatusOf(fulfilled, needed) ==
  IF fulfilled >= needed THEN "fulfilled"
  ELSE IF fulfilled > 0 THEN "partial"
  ELSE "pending"

RECURSIVE SumTo(_, _, _)
SumTo(ledger, n, i) ==
  IF i = 0 THEN 0
  ELSE SumTo(ledger, n, i - 1) + (IF ledger[i].need_id = n THEN ledger[i].quantity ELSE 0)

(* the sum of the quantities of the ledger entries recorded against need n *)
LedgerSum(n) == SumTo(ngo_assistance, n, Len(ngo_assistance))

Stored(n) == camp_needs[n] # NoRow

Remaining(n) == camp_needs[n].quantity_needed - camp_needs[n].quantity_fulfilled

InFlight(s) == pc[s] # "idle"

(* C1: for every need (of a positive quantity_needed) the quantities of    *)
(* the ledger entries committed against it never sum to more than its      *)
(* quantity_needed, however the pledges of the sessions interleave.        *)
C1_NoOvercommit ==
  \A n \in NeedIds :
    (Stored(n) /\ camp_needs[n].quantity_needed > 0)
      => LedgerSum(n) <= camp_needs[n].quantity_needed

(* C2: two pledges against the same need that are in flight together, each *)
(* within the remaining quantity but together beyond it, are never both    *)
(* past their ledger insert: one of them has been rejected.                *)
C2_OneOfTwoRejected ==
  \A s \in Sessions, t \in Sessions :
    ~ ( /\ s # t
        /\ pc[s] = "inserted" /\ pc[t] = "inserted"
        /\ selectedNeed[s].id = selectedNeed[t].id
        /\ Stored(selectedNeed[s].id)
        /\ FormAdmits(selectedNeed[s], Num(quantity[s]))
        /\ FormAdmits(selectedNeed[t], Num(quantity[t]))
        /\ quantity[s] <= Remaining(selectedNeed[s].id)
        /\ quantity[t] <= Remaining(selectedNeed[s].id)
        /\ quantity[s] + quantity[t] > Remaining(selectedNeed[s].id) )

(* C3: every stored need (of a positive quantity_needed) has               *)
(* quantity_fulfilled <= quantity_needed.                                  *)
C3_FulfilledWithinNeeded ==
  \A n \in NeedIds :
    (Stored(n) /\ camp_needs[n].quantity_needed > 0)
      => camp_needs[n].quantity_fulfilled <= camp_needs[n].quantity_needed

(* C4: every stored need's status is the function of its stored quantities:*)
(* fulfilled iff fulfilled >= needed, else partial iff fulfilled > 0, else *)
(* pending.                                                                *)
C4_StatusIsFunction ==
  \A n \in NeedIds :
    Stored(n) =>
      camp_needs[n].status =
        StatusOf(camp_needs[n].quantity_fulfilled, camp_needs[n].quantity_needed)

(* C5: a pledge of quantity q reported as successful has (a) put one       *)
(* ledger entry of quantity q and delivery_status 'pledged' and (b) raised *)
(* the stored need's quantity_fulfilled by exactly q over its value at the *)
(* update, with the status recomputed.                                     *)
C5_SuccessMeansApplied ==
  \A s \in Sessions :
    (obs[s].reported /\ obs[s].pre # NoRow) =>
      /\ obs[s].entry \in DOMAIN ngo_assistance
      /\ ngo_assistance[obs[s].entry].quantity = obs[s].q
      /\ ngo_assistance[obs[s].entry].delivery_status = "pledged"
      /\ obs[s].post # NoRow
      /\ obs[s].post.quantity_fulfilled = obs[s].pre.quantity_fulfilled + obs[s].q
      /\ obs[s].post.status =
           StatusOf(obs[s].post.quantity_fulfilled, obs[s].post.quantity_needed)

(* C6: whenever no pledge is in flight, each stored need's                 *)
(* quantity_fulfilled is the sum of the ledger entries recorded against it.*)
C6_AllOrNothing ==
  (\A s \in Sessions : ~InFlight(s)) =>
    \A n \in NeedIds : Stored(n) => camp_needs[n].quantity_fulfilled = LedgerSum(n)

(* C7: with a single NGO session pledging (SpecSolo), a pledge whose       *)
(* quantity exceeds the need's stored remaining quantity at the ledger     *)
(* insert is rejected: nothing is inserted, the handler ends with an error.*)
C7_OverCommitRejected ==
  [][ \A s \in Sessions, i \in SoloPledgeInputs :
        ( /\ PledgeInsert(s, i)
          /\ Stored(selectedNeed[s].id)
          /\ camp_needs[selectedNeed[s].id].quantity_needed > 0
          /\ ~parseInt(i).nan
          /\ parseInt(i).val > Remaining(selectedNeed[s].id) )
        => /\ ngo_assistance' = ngo_assistance
           /\ pc'[s] = "idle"
           /\ toasts'[s] # {} ]_vars

(* C8: a pledge whose quantity is not a positive integer (zero, negative,  *)
(* or NaN) is rejected: no ledger entry, the need unchanged, an error.     *)
C8_NonPositiveRejected ==
  [][ \A s \in Sessions, i \in SoloPledgeInputs :
        ( /\ PledgeInsert(s, i)
          /\ (parseInt(i).nan \/ parseInt(i).val <= 0) )
        => /\ ngo_assistance' = ngo_assistance
           /\ camp_needs' = camp_needs
           /\ pc'[s] = "idle"
           /\ toasts'[s] # {} ]_vars

(* C9: a pledge by an authenticated actor whose profile role is not 'ngo'  *)
(* is rejected: no ledger entry is inserted, the need is unchanged, the    *)
(* handler ends and the actor is shown the policy's error.                 *)
C9_NonNgoRejected ==
  [][ \A s \in Sessions, i \in PledgeInputs :
        ( /\ PledgeInsert(s, i)
          /\ authUser[s] # NoUser
          /\ profiles[authUser[s]] # "ngo" )
        => /\ ngo_assistance' = ngo_assistance
           /\ camp_needs' = camp_needs
           /\ pc'[s] = "idle"
           /\ toasts'[s] = {RlsError} ]_vars

(* C9 witness: an NGO dashboard whose user is no longer an 'ngo' has had a *)
(* pledge turned down by the policy.                                       *)
C9_Witness ==
  \E s \in Sessions :
    /\ userRole[s] = "ngo"
    /\ authUser[s] # NoUser
    /\ profiles[authUser[s]] # "ngo"
    /\ selectedNeed[s] # Null
    /\ toasts[s] = {RlsError}
    /\ pc[s] = "idle"

(* C10: a pledge reported as successful found its need in the store when   *)
(* it came to update it, and its ledger entry still points at that need.   *)
C10_VanishedNeedRejected ==
  \A s \in Sessions :
    obs[s].reported =>
      /\ obs[s].pre # NoRow
      /\ ngo_assistance[obs[s].entry].need_id # NULL

(* one step forward along pledged -> in_transit -> delivered *)
ForwardEdge(a, b) ==
  << a, b >> \in { << "pledged", "in_transit" >>, << "in_transit", "delivered" >> }

(* C11: the delivery_status of a ledger entry only moves forward one step  *)
(* at a time along pledged -> in_transit -> delivered, and every new entry *)
(* starts as 'pledged': no step of the system puts a non-forward edge into *)
(* an entry's history.                                                     *)
C11_StatusOnlyForward ==
  [][ \A i \in DOMAIN ngo_assistance' :
        IF i \in DOMAIN ngo_assistance
        THEN \/ ngo_assistance'[i].delivery_status = ngo_assistance[i].delivery_status
             \/ ForwardEdge(ngo_assistance[i].delivery_status,
                            ngo_assistance'[i].delivery_status)
        ELSE ngo_assistance'[i].delivery_status = "pledged" ]_vars

(* C12: once a ledger entry is created no step changes its ngo_id, camp_id *)
(* or quantity (of the listed fields those the ledger rows carry here):    *)
(* delivery_status is the only field an update changes.                    *)
C12_OnlyStatusChanges ==
  [][ \A i \in DOMAIN ngo_assistance :
        /\ i \in DOMAIN ngo_assistance'
        /\ ngo_assistance'[i].ngo_id = ngo_assistance[i].ngo_id
        /\ ngo_assistance'[i].camp_id = ngo_assistance[i].camp_id
        /\ ngo_assistance'[i].quantity = ngo_assistance[i].quantity ]_vars

(* the rows of the table that carry the key of (user, camp, type) *)
Registrations(table, u, c, type) ==
  { i \in DOMAIN table :
      table[i].user_id = u /\ table[i].camp_id = c /\ table[i].volunteer_type = type }

(* C13: there is at most one volunteer registration per (user_id, camp_id, *)
(* volunteer_type): a handleVolunteer call whose insert finds the user     *)
(* already registered for the camp, whether it follows the first call or   *)
(* ran alongside it, inserts no row and tells the user they are already    *)
(* registered.                                                             *)
C13_OneRegistration ==
  [][ /\ \A i \in DOMAIN volunteers' :
           Registrations(volunteers', volunteers'[i].user_id, volunteers'[i].camp_id,
                         volunteers'[i].volunteer_type) = {i}
      /\ \A s \in Sessions :
           ( /\ VolunteerInsert(s)
             /\ Registrations(volunteers, volunteerFor[s].user_id, volunteerFor[s].camp_id,
                              "camp_volunteer") # {} )
           => /\ volunteers' = volunteers
              /\ toasts'[s] = {"You're already registered for this camp"} ]_vars

(* C13 witness: two sessions of one user have both asked to register for   *)
(* the same camp; one has been registered, the other has been told the     *)
(* user is already registered, and the table holds the one row.            *)
C13_Witness ==
  \E s \in Sessions, t \in Sessions :
    /\ s # t
    /\ authUser[s] # NoUser
    /\ authUser[s] = authUser[t]
    /\ toasts[s] = {"Successfully registered as volunteer!"}
    /\ toasts[t] = {"You're already registered for this camp"}
    /\ Cardinality(Registrations(volunteers, authUser[s], 1, "camp_volunteer")) = 1

(* C14: a volunteer registration whose insert commits while the camp's     *)
(* stored occupied_seats is at or above its total_capacity is rejected: no *)
(* volunteers row is inserted and the camp's occupied_seats is unchanged.  *)
C14_FullCampRejected ==
  [][ \A s \in Sessions :
        ( /\ VolunteerInsert(s)
          /\ camps[volunteerFor[s].camp_id] # NoRow
          /\ camps[volunteerFor[s].camp_id].occupied_seats
               >= camps[volunteerFor[s].camp_id].total_capacity )
        => /\ volunteers' = volunteers
           /\ camps' = camps ]_vars

(* C15: every stored camp has 0 <= occupied_seats <= total_capacity,       *)
(* whatever capacity and occupied values handleCreateCamp was submitted.   *)
C15_SeatsWithinCapacity ==
  \A c \in CampIds :
    camps[c] # NoRow =>
      /\ 0 <= camps[c].occupied_seats
      /\ camps[c].occupied_seats <= camps[c].total_capacity

(* C16: every stored need has quantity_needed > 0 and quantity_fulfilled   *)
(* >= 0, whatever quantity handleAddNeed was submitted.                    *)
C16_NeedQuantitiesValid ==
  \A n \in NeedIds :
    Stored(n) =>
      /\ camp_needs[n].quantity_needed > 0
      /\ camp_needs[n].quantity_fulfilled >= 0

(* a step that stores need n is a handleAddNeed of a session whose user    *)
(* administers the need's camp, and the need starts at 0, 'pending'        *)
NeedCreatedByOwner(n) ==
  /\ \E s \in Sessions, i \in NeedInputs :
       /\ handleAddNeed(s, i)
       /\ authUser[s] # NoUser
       /\ camps[camp_needs'[n].camp_id].camp_admin_id = authUser[s]
  /\ camp_needs'[n].quantity_fulfilled = 0
  /\ camp_needs'[n].status = "pending"

(* a step that removes need n removes its camp *)
NeedDeletedByCascade(n) ==
  camps'[camp_needs[n].camp_id] = NoRow

(* C17: a need is created only by the administrator who owns its camp and  *)
(* starts with quantity_fulfilled = 0 and status 'pending'; a need is      *)
(* never deleted except by cascade when its camp is deleted.               *)
C17_NeedLifecycle ==
  [][ \A n \in NeedIds :
        /\ (~Stored(n) /\ camp_needs'[n] # NoRow) => NeedCreatedByOwner(n)
        /\ (Stored(n) /\ camp_needs'[n] = NoRow) => NeedDeletedByCascade(n) ]_vars

(* C18: a profile's role is fixed at creation: once the signup trigger has *)
(* created the profile no step changes its role.                           *)
C18_RoleFixed ==
  [][ \A u \in Users :
        profiles[u] # NoProfile => profiles'[u] = profiles[u] ]_vars

(* the messages a handler shows on success *)
SuccessMessages ==
  { "Assistance pledged successfully!", "Camp created successfully!",
    "Need added successfully!", "Successfully registered as volunteer!" }

(* a data-access call of session s comes back with an error: the role      *)
(* query of fetchUserRole, the camps query of fetchCamps, fetchCampData or *)
(* its fetchNeeds, the queries of fetchData                                *)
FailedCall(s) ==
  \/ \E r \in Requests : fetchUserRole(s, r, FALSE)
  \/ fetchCampsReturns(s, FALSE)
  \/ \E okNeeds \in BOOLEAN : fetchCampDataReturns(s, FALSE, okNeeds)
  \/ /\ fetchCampDataReturns(s, TRUE, FALSE)
     /\ authUser[s] # NoUser
     /\ CampsOf(authUser[s]) # {}
     /\ selectedCamp[s] = NULL
  \/ fetchDataReturns(s, FALSE)

(* C19: every data-access call that comes back with an error inside a      *)
(* dashboard operation ends with a failure message shown to the actor:     *)
(* never with a success message, never with no message at all.             *)
C19_ErrorsReported ==
  [][ \A s \in Sessions :
        FailedCall(s) =>
          /\ toasts'[s] # {}
          /\ toasts'[s] \cap SuccessMessages = {} ]_vars

(* a step after which view v of session s is newly on screen *)
Mounts(s, v) ==
  IF v = "Index"
  THEN \E u \in Users \cup {NoUser} : IndexMount(s, u)
  ELSE /\ Shown(session[s], userRole[s], loading[s]["Index"]) # v
       /\ Shown(session'[s], userRole'[s], loading'[s]["Index"]) = v

(* C20: when every request eventually comes back, with data or with an     *)
(* error, each view's loading flag becomes false after the view's mount,   *)
(* and stays false for as long as the view is up.                          *)
C20_LoadingSettles ==
  /\ \A s \in PageSessions, v \in Views : loading[s][v] ~> ~loading[s][v]
  /\ [][ \A s \in Sessions, v \in Views :
           (~loading[s][v] /\ loading'[s][v]) => Mounts(s, v) ]_vars

(* C20 witness: an NGO's dashboard whose fetch came back with an error     *)
(* shows the failure, and neither Index nor the dashboard is loading.      *)
C20_Witness ==
  \E s \in Sessions :
    /\ session[s] # NoUser
    /\ userRole[s] = "ngo"
    /\ pending[s] = {}
    /\ toasts[s] = {"Failed to load data"}
    /\ ~loading[s]["Index"]
    /\ ~loading[s]["NGODashboard"]

(* C21: in CampDashboard, whenever no request is in flight, the needs      *)
(* displayed are needs of the currently selected camp, after any sequence  *)
(* of handleCampSelect, handleCreateCamp and handleAddNeed.                *)
C21_NeedsOfSelectedCamp ==
  \A s \in Sessions :
    ( /\ userRole[s] = "camp"
      /\ pc[s] = "idle"
      /\ pending[s] \cap NeedsRequests = {}
      /\ selectedCamp[s] # NULL )
    => \A n \in NeedIds :
         needs[s][n] # NoRow => needs[s][n].camp_id = selectedCamp[s]

(* C22: in Index, whenever loading is false and a session exists, userRole *)
(* is null or the profile role of that session's user: no answer of        *)
(* fetchUserRole for an earlier session's user, and no role kept from an   *)
(* earlier session, shows another user's role or dashboard.                *)
C22_RoleOfSessionUser ==
  \A s \in PageSessions :
    (~loading[s]["Index"] /\ session[s] # NoUser)
      => userRole[s] \in {NoProfile, profiles[session[s]]}

(* C23: Index renders a dashboard only when a session exists, and once     *)
(* loading is false with a session it renders exactly the dashboard of the *)
(* user's profile role: never none for an authenticated user, also when    *)
(* the role lookup fails.                                                  *)
C23_OneDashboardOfRole ==
  \A s \in PageSessions :
    /\ session[s] = NoUser
         => Shown(session[s], userRole[s], loading[s]["Index"]) = "none"
    /\ (~loading[s]["Index"] /\ session[s] # NoUser)
         => /\ Shown(session[s], userRole[s], loading[s]["Index"]) # "none"
            /\ Shown(session[s], userRole[s], loading[s]["Index"])
                 = Dashboard(profiles[session[s]])

(* the priority the urgency labels stand for *)
Priority(label) ==
  CASE label = "critical" -> 4
    [] label = "high" -> 3
    [] label = "medium" -> 2
    [] label = "low" -> 1

(* C24: the needs lists fetched by NGODashboard.fetchData and              *)
(* CampDashboard.fetchNeeds are ordered by urgency priority, most urgent   *)
(* first: critical before high before medium before low.                   *)
C24_MostUrgentFirst ==
  \A i \in DOMAIN fetchedUrgency, j \in DOMAIN fetchedUrgency :
    i < j => Priority(fetchedUrgency[i]) >= Priority(fetchedUrgency[j])

(* C25: after fetchCampData succeeds for an administrator who owns camps   *)
(* and has none selected, selectedCamp is the most recently created of     *)
(* them and needs holds that camp's needs; a camp already selected stays   *)
(* selected; with no camp of their own selectedCamp stays null.            *)
C25_NewestCampSelected ==
  [][ \A s \in Sessions :
        (fetchCampData(s) /\ authUser[s] # NoUser) =>
          /\ (CampsOf(authUser[s]) # {} /\ selectedCamp[s] = NULL)
               => /\ selectedCamp'[s] \in CampsOf(authUser[s])
                  /\ \A d \in CampsOf(authUser[s]) : d <= selectedCamp'[s]
                  /\ needs'[s] = CampNeedsQuery(camp_needs, selectedCamp'[s])
          /\ selectedCamp[s] # NULL => selectedCamp'[s] = selectedCamp[s]
          /\ (CampsOf(authUser[s]) = {} /\ selectedCamp[s] = NULL)
               => selectedCamp'[s] = NULL ]_vars

(* the administrator of two camps, back on the dashboard: the second camp  *)
(* is selected and its need is listed                                      *)
C25_Witness ==
  /\ CampsOf(authUser[1]) = {1, 2}
  /\ selectedCamp[1] = 2
  /\ toasts[1] = {}
  /\ needs[1][1] # NoRow
  /\ needs[1][1].camp_id = 2

(* C26: if the ledger insert of handleProvideAssistance fails, or the      *)
(* actor is not authenticated, no update of the need is issued: the need   *)
(* is unchanged, the dialog stays open with the same selectedNeed, there   *)
(* is no success message and the actor sees an error.                      *)
C26_FailedInsertStops ==
  [][ \A s \in Sessions :
        ( /\ \E i \in PledgeInputs : PledgeInsert(s, i)
          /\ ngo_assistance' = ngo_assistance )
        => /\ pc'[s] = "idle"
           /\ camp_needs' = camp_needs
           /\ showAssistDialog'[s]
           /\ selectedNeed'[s] = selectedNeed[s]
           /\ selectedNeed'[s] # Null
           /\ toasts'[s] # {}
           /\ toasts'[s] \cap SuccessMessages = {} ]_vars

(* an NGO whose token is no longer valid has submitted the pledge form *)
C26_Witness ==
  /\ authUser[1] = NoUser
  /\ userRole[1] = "ngo"
  /\ toasts[1] = {NotAuthenticated}
  /\ pc[1] = "idle"
  /\ showAssistDialog[1]
  /\ selectedNeed[1] # Null
  /\ ngo_assistance = << >>

(* a step of one of the dashboards' writing handlers by session s *)
Writes(s) ==
  \/ \E i \in PledgeInputs : PledgeInsert(s, i)
  \/ \E d \in BOOLEAN : PledgeUpdate(s, d)
  \/ \E c \in CapacityInputs, o \in OccupiedInputs : handleCreateCamp(s, c, o)
  \/ \E i \in NeedInputs : handleAddNeed(s, i)
  \/ \E c \in CampIds : handleVolunteer(s, c)
  \/ VolunteerInsert(s)

(* C27: when no user is authenticated, no dashboard handler writes a row:  *)
(* handleProvideAssistance, handleCreateCamp, handleVolunteer and          *)
(* handleAddNeed leave camps, camp_needs, volunteers and ngo_assistance    *)
(* unchanged.                                                              *)
C27_GuestWritesNothing ==
  [][ \A s \in Sessions :
        (authUser[s] = NoUser /\ Writes(s))
          => UNCHANGED << camps, camp_needs, volunteers, ngo_assistance >> ]_vars

(* an administrator whose token is no longer valid has submitted the need  *)
(* form for the selected camp, and the insert was refused                  *)
C27_Witness ==
  /\ authUser[1] = NoUser
  /\ userRole[1] = "camp"
  /\ selectedCamp[1] # NULL
  /\ toasts[1] = {RlsError}
  /\ camp_needs = [ n \in NeedIds |-> NoRow ]

(* every reference to a need or a camp is to a stored row *)
ReferencesHold ==
  /\ \A i \in DOMAIN ngo_assistance :
       /\ ngo_assistance[i].need_id = NULL \/ Stored(ngo_assistance[i].need_id)
       /\ camps[ngo_assistance[i].camp_id] # NoRow
  /\ \A n \in NeedIds : Stored(n) => camps[camp_needs[n].camp_id] # NoRow
  /\ \A i \in DOMAIN volunteers : camps[volunteers[i].camp_id] # NoRow

(* C28: after deletions each ledger entry's need_id is null or an existing *)
(* need and its camp_id an existing camp; deleting a need keeps its ledger *)
(* entries, with need_id null; deleting a camp removes its needs, its      *)
(* ledger entries and its volunteer registrations.                         *)
C28_ReferentialIntegrity ==
  /\ []ReferencesHold
  /\ [][ \A n \in NeedIds :
           (\E uid \in Users : DeleteNeed(uid, n)) =>
             /\ Len(ngo_assistance') = Len(ngo_assistance)
             /\ \A i \in DOMAIN ngo_assistance :
                  ngo_assistance'[i] =
                    IF ngo_assistance[i].need_id = n
                    THEN [ngo_assistance[i] EXCEPT !.need_id = NULL]
                    ELSE ngo_assistance[i] ]_vars
  /\ [][ \A c \in CampIds :
           DeleteCamp(c) =>
             /\ \A n \in NeedIds : Stored(n) => camp_needs'[n] = NoRow \/ camp_needs[n].camp_id # c
             /\ \A i \in DOMAIN ngo_assistance' : ngo_assistance'[i].camp_id # c
             /\ \A i \in DOMAIN volunteers' : volunteers'[i].camp_id # c ]_vars

(* a pledge whose need was deleted afterwards: the entry is kept, without  *)
(* its need                                                                *)
C28_Witness ==
  \E i \in DOMAIN ngo_assistance :
    /\ ngo_assistance[i].need_id = NULL
    /\ camps[ngo_assistance[i].camp_id] # NoRow
    /\ camp_needs = [ n \in NeedIds |-> NoRow ]

====
